---------------------------- MODULE Spec2Model ----------------------------
(***************************************************************************)
(* Model of the geomarketing scoring pipeline.                             *)
(*                                                                         *)
(*   src/main.py : merge_datasets, normalize_data,                         *)
(*                 calculate_distance_weight, the six *_weighting          *)
(*                 functions, and the request handlers get_map and         *)
(*                 get_statistics.                                         *)
(*   src/file.py : load_and_merge_income_data (fuzzy name merge).          *)
(*                                                                         *)
(* Numbers.  The program computes with IEEE doubles.  A finite value is    *)
(* modelled as an exact fraction in lowest terms [n, d] with d > 0; the    *)
(* not-a-number value (pandas' marker of an absent cell, and the result    *)
(* of 0.0 / 0.0) is the record [n |-> 0, d |-> 0].  Rounding of doubles is *)
(* not modelled.                                                           *)
(***************************************************************************)
EXTENDS Integers, Sequences, FiniteSets, TLC

VARIABLES
    pc,              \* "loaded" / "csv" / "bell_input": inputs in place; "map" / "stats" / "merged" / "bell": the operation has run
    municipalities,  \* main.py: table returned by load_municipality_data; file.py: the municipalities argument
    income_data,     \* main.py: table returned by load_income_data
    hotspots,        \* table returned by load_hotspots (point coordinates)
    segment,         \* get_map: the request's segment argument
    data,            \* the table the handler worked on (rows carry the columns written so far)
    weight_column,   \* get_map: the column handed to create_heatmap
    top_municipalities, \* get_statistics: segment label -> list of {name, weight}
    bell_in,         \* offset d of the income value from the bell target
    bell_out,        \* <<income_weight at t + d, income_weight at t - d>>
    income_csv,      \* file.py: rows of data/income_by_municipality_utf8.csv
    similarity,      \* file.py: the scorer of fuzzywuzzy's process.extractOne
    income_df,       \* file.py: load_and_merge_income_data's income_df when it returned
    failed,          \* file.py: load_and_merge_income_data took its except branch
    merge_raises     \* main.py: municipalities.merge raises in this request's merge_datasets

vars == <<pc, municipalities, income_data, hotspots, segment, data, weight_column,
          top_municipalities, bell_in, bell_out, income_csv, similarity, income_df, failed,
          merge_raises>>

scoreInputs == <<municipalities, income_data, hotspots, merge_raises>>
bellVars    == <<bell_in, bell_out>>
fuzzyVars   == <<income_csv, similarity, income_df, failed>>

(***************************************************************************)
(* Bounds of the model.                                                    *)
(***************************************************************************)
MaxRegions == 2      \* municipalities per table
MaxIncome  == 2      \* incomes are drawn from 0 .. MaxIncome (and absent)
MaxPoints  == 2      \* points per point-of-interest table
MaxRecords == 2      \* rows of the income CSV read by file.py
BellDen    == 20     \* bell offsets are k / BellDen, k in 0 .. BellDen

(***************************************************************************)
(* Floating point values as fractions.                                     *)
(***************************************************************************)
NaN == [n |-> 0, d |-> 0]

IsNaN(x) == x.d = 0

Abs(i) == IF i < 0 THEN -i ELSE i

RECURSIVE GCD(_, _)
GCD(a, b) == IF b = 0 THEN a ELSE GCD(b, a % b)

\* the fraction num / den (den > 0) in lowest terms
Frac(num, den) ==
    LET g == GCD(Abs(num), den)
    IN  [n |-> num \div g, d |-> den \div g]

Num(i) == [n |-> i, d |-> 1]

RAdd(a, b) == IF IsNaN(a) \/ IsNaN(b) THEN NaN ELSE Frac(a.n * b.d + b.n * a.d, a.d * b.d)
RSub(a, b) == IF IsNaN(a) \/ IsNaN(b) THEN NaN ELSE Frac(a.n * b.d - b.n * a.d, a.d * b.d)
RMul(a, b) == IF IsNaN(a) \/ IsNaN(b) THEN NaN ELSE Frac(a.n * b.n, a.d * b.d)
RAbs(a)    == IF IsNaN(a) THEN NaN ELSE [n |-> Abs(a.n), d |-> a.d]

\* a / b in doubles: 0.0 / 0.0 is not-a-number (no exception is raised on a Series)
RDiv(a, b) ==
    IF IsNaN(a) \/ IsNaN(b) \/ b.n = 0 THEN NaN
    ELSE IF b.n > 0 THEN Frac(a.n * b.d, a.d * b.n)
    ELSE Frac(-(a.n * b.d), a.d * (-b.n))

\* comparisons of finite values
RLe(a, b) == a.n * b.d <= b.n * a.d
RLt(a, b) == a.n * b.d < b.n * a.d

\* Series.clip(lo, hi): an absent value stays absent
RClip(x, lo, hi) ==
    IF IsNaN(x) THEN NaN
    ELSE IF RLt(x, lo) THEN lo
    ELSE IF RLt(hi, x) THEN hi
    ELSE x


(***************************************************************************)
(* Tables.  A table is a sequence of rows; a row is a function from the    *)
(* names of the columns it has to their values.                            *)
(***************************************************************************)
Column(table, c) == [i \in 1..Len(table) |-> table[i][c]]

\* data[c] = vals: adds the column or overwrites it, leaves all others alone
SetColumn(table, c, vals) ==
    [i \in 1..Len(table) |->
        [k \in (DOMAIN table[i]) \cup {c} |-> IF k = c THEN vals[i] ELSE table[i][k]]]

RECURSIVE Flatten(_)
Flatten(ss) == IF ss = <<>> THEN <<>> ELSE Head(ss) \o Flatten(Tail(ss))

(***************************************************************************)
(* Input alphabets.                                                        *)
(***************************************************************************)
MaxDistance == 10000     \* default of calculate_distance_weight's max_distance

\* Geometries are points of a line; with these coordinates the distances are
\* 0, 5000 (inside the range), 10000 (= max_distance) and 15000 (beyond it).
Coords == {0, 5000, 15000}

NoGeometry == -1         \* the geometry of a feature that has none (null in the GeoJSON)

Incomes == {NaN} \cup {Num(i) : i \in 0..MaxIncome}

NoId == 0                \* the region_id of a row the join found no income record for
NoName == "<nan>"        \* its region_name

RegionNames == <<"Aeugst", "Affoltern", "Bonstetten", "Hausen", "Hedingen">>
RegionName(id) == RegionNames[id]

\* geometry.distance(point.geometry)
Distance(g, p) == Abs(g - p)

\* sequences over S of length at most n, non-decreasing (one representative per
\* multiset: the order of a point table does not enter min(distances))
SortedSeqs(S, n) ==
    UNION {{s \in [1..k -> S] : \A i \in 1..k, j \in 1..k : i < j => s[i] <= s[j]} : k \in 0..n}

(***************************************************************************)
(* src/main.py, data processing functions.                                 *)
(***************************************************************************)
\* municipalities.merge(income_data, left_on='id', right_on='region_id', how='left')
LeftJoinRows(m, income) ==
    LET hits == SelectSeq(income, LAMBDA r : r.region_id = m.id)
    IN  IF hits = <<>>
        THEN << [id |-> m.id, name |-> m.name, geometry |-> m.geometry, region_id |-> NoId,
                 region_name |-> NoName, income_per_taxpayer |-> NaN] >>
        ELSE [k \in 1..Len(hits) |->
                [id |-> m.id, name |-> m.name, geometry |-> m.geometry,
                 region_id |-> hits[k].region_id,
                 region_name |-> hits[k].region_name,
                 income_per_taxpayer |-> hits[k].income_per_taxpayer]]

\* municipalities.merge(income_data, left_on='id', right_on='region_id', how='left')
MergeLeft(munis, income) ==
    Flatten([i \in 1..Len(munis) |-> LeftJoinRows(munis[i], income)])

DefaultIncome == 80000   \* municipalities['income_per_taxpayer'] = 80000

\* faulty variant: the except branch sets no income
merge_datasets_no_default(munis, income, raises) ==
    IF raises
    THEN SetColumn(munis, "income_per_taxpayer", [i \in 1..Len(munis) |-> NaN])
    ELSE MergeLeft(munis, income)

\* try: the merge; except Exception: the municipalities with the default income.
\* raises: the merge raised
merge_datasets(munis, income, raises) ==
    IF raises
    THEN SetColumn(munis, "income_per_taxpayer", [i \in 1..Len(munis) |-> Num(DefaultIncome)])
    ELSE MergeLeft(munis, income)

\* Series.min() / Series.max(): absent values are skipped; absent when none is present
SeriesMin(vals) ==
    LET P == {i \in DOMAIN vals : ~IsNaN(vals[i])}
    IN  IF P = {} THEN NaN
        ELSE vals[CHOOSE i \in P : \A j \in P : RLe(vals[i], vals[j])]

SeriesMax(vals) ==
    LET P == {i \in DOMAIN vals : ~IsNaN(vals[i])}
    IN  IF P = {} THEN NaN
        ELSE vals[CHOOSE i \in P : \A j \in P : RLe(vals[j], vals[i])]

normalize_data(table, column) ==
    LET vals    == Column(table, column)
        min_val == SeriesMin(vals)
        max_val == SeriesMax(vals)
    IN  [i \in 1..Len(table) |-> RDiv(RSub(vals[i], min_val), RSub(max_val, min_val))]

\* faulty variant: an empty point table counts as distance 0
MinDistanceZeroIfEmpty(points, g, max_distance) ==
    IF points = <<>> THEN 0
    ELSE LET ds == {Distance(g, points[k]) : k \in 1..Len(points)}
         IN  CHOOSE x \in ds : \A y \in ds : x <= y

\* min(distances) if distances else max_distance
MinDistance(points, g, max_distance) ==
    IF points = <<>> THEN max_distance
    ELSE LET ds == {Distance(g, points[k]) : k \in 1..Len(points)}
         IN  CHOOSE x \in ds : \A y \in ds : x <= y

IntMin(a, b) == IF a <= b THEN a ELSE b

\* faulty variant: the distance is not capped at max_distance
DistanceWeightUncapped(min_distance, max_distance) ==
    RSub(Num(1), Frac(min_distance, max_distance))

\* weight = 1 - (min(min_distance, max_distance) / max_distance)
DistanceWeight(min_distance, max_distance) ==
    RSub(Num(1), Frac(IntMin(min_distance, max_distance), max_distance))

\* municipality.geometry.distance(...) on a geometry that is None: AttributeError.
\* The inner loop reads the geometry once per point, so not at all for an empty
\* point table.
DistanceRaises(points, target) ==
    /\ points # <<>>
    /\ \E i \in 1..Len(target) : target[i].geometry = NoGeometry

calculate_distance_weight(points, target, max_distance) ==
    [i \in 1..Len(target) |->
        DistanceWeight(MinDistance(points, target[i].geometry, max_distance), max_distance)]


(***************************************************************************)
(* src/main.py, weighting models.  Each takes the table, the hotspots and  *)
(* the publicity locations, writes its columns and returns the table.      *)
(***************************************************************************)
Half == Frac(1, 2)

\* faulty variant: the abs() is missing
BellCurveNoAbs(series, target) ==
    [i \in DOMAIN series |->
        RClip(RSub(Num(1), RMul(Num(2), RSub(series[i], target))), Num(0), Num(1))]

\* faulty variant: the .clip(0, 1) is missing
BellCurveUnclipped(series, target) ==
    [i \in DOMAIN series |-> RSub(Num(1), RMul(Num(2), RAbs(RSub(series[i], target))))]

\* 1 - 2 * abs(series - target), then .clip(0, 1)
BellCurve(series, target) ==
    [i \in DOMAIN series |->
        RClip(RSub(Num(1), RMul(Num(2), RAbs(RSub(series[i], target)))), Num(0), Num(1))]

\* a * data[x] + b * data[y], row by row
Blend(table, a, x, b, y) ==
    [i \in 1..Len(table) |-> RAdd(RMul(a, table[i][x]), RMul(b, table[i][y]))]

\* faulty variant: the target of the Handwerk weighting
kmu_income_weight_mid(series) == BellCurve(series, Frac(5, 10))

kmu_income_weight(series) == BellCurve(series, Frac(7, 10))

kmu_weighting(table, hs, publicity) ==
    LET d1 == SetColumn(table, "income_normalized", normalize_data(table, "income_per_taxpayer"))
        d2 == SetColumn(d1, "income_weight", kmu_income_weight(Column(d1, "income_normalized")))
        d3 == SetColumn(d2, "hotspot_weight", calculate_distance_weight(hs, d2, MaxDistance))
    IN  SetColumn(d3, "kmu_weight",
                  Blend(d3, Half, "income_weight", Half, "hotspot_weight"))

handwerk_income_weight(series) == BellCurve(series, Frac(5, 10))

handwerk_weighting(table, hs, publicity) ==
    LET d1 == SetColumn(table, "income_normalized", normalize_data(table, "income_per_taxpayer"))
        d2 == SetColumn(d1, "income_weight", handwerk_income_weight(Column(d1, "income_normalized")))
        d3 == SetColumn(d2, "residential_weight", calculate_distance_weight(hs, d2, MaxDistance))
    IN  SetColumn(d3, "handwerk_weight",
                  Blend(d3, Frac(6, 10), "income_weight", Frac(4, 10), "residential_weight"))

\* faulty variant: the coefficients of the service weighting (0.6 income, 0.4 proximity)
retail_gastro_weighting_swapped(table, hs, publicity) ==
    LET d1 == SetColumn(table, "hotspot_weight", calculate_distance_weight(hs, table, MaxDistance))
        d2 == SetColumn(d1, "income_normalized", normalize_data(d1, "income_per_taxpayer"))
    IN  SetColumn(d2, "retail_gastro_weight",
                  Blend(d2, Frac(4, 10), "hotspot_weight", Frac(6, 10), "income_normalized"))

retail_gastro_weighting(table, hs, publicity) ==
    LET d1 == SetColumn(table, "hotspot_weight", calculate_distance_weight(hs, table, MaxDistance))
        d2 == SetColumn(d1, "income_normalized", normalize_data(d1, "income_per_taxpayer"))
    IN  SetColumn(d2, "retail_gastro_weight",
                  Blend(d2, Frac(7, 10), "hotspot_weight", Frac(3, 10), "income_normalized"))

\* faulty variant: the result is also written into the column of the KMU weighting
service_weighting_clobbering(table, hs, publicity) ==
    LET d1 == SetColumn(table, "income_normalized", normalize_data(table, "income_per_taxpayer"))
        d2 == SetColumn(d1, "business_weight", calculate_distance_weight(hs, d1, MaxDistance))
        d3 == SetColumn(d2, "service_weight",
                  Blend(d2, Frac(6, 10), "income_normalized", Frac(4, 10), "business_weight"))
    IN  SetColumn(d3, "kmu_weight", Column(d3, "service_weight"))

service_weighting(table, hs, publicity) ==
    LET d1 == SetColumn(table, "income_normalized", normalize_data(table, "income_per_taxpayer"))
        d2 == SetColumn(d1, "business_weight", calculate_distance_weight(hs, d1, MaxDistance))
    IN  SetColumn(d2, "service_weight",
                  Blend(d2, Frac(6, 10), "income_normalized", Frac(4, 10), "business_weight"))

tourism_weighting(table, hs, publicity) ==
    LET d1 == SetColumn(table, "tourist_weight", calculate_distance_weight(hs, table, MaxDistance))
        d2 == SetColumn(d1, "income_normalized", normalize_data(d1, "income_per_taxpayer"))
    IN  SetColumn(d2, "tourism_weight",
                  Blend(d2, Frac(8, 10), "tourist_weight", Frac(2, 10), "income_normalized"))

startup_income_weight(series) == BellCurve(series, Frac(6, 10))

startup_weighting(table, hs, publicity) ==
    LET d1 == SetColumn(table, "innovation_weight", calculate_distance_weight(hs, table, MaxDistance))
        d2 == SetColumn(d1, "income_normalized", normalize_data(d1, "income_per_taxpayer"))
        d3 == SetColumn(d2, "income_weight", startup_income_weight(Column(d2, "income_normalized")))
    IN  SetColumn(d3, "startup_weight",
                  Blend(d3, Half, "innovation_weight", Half, "income_weight"))


(***************************************************************************)
(* src/main.py, request handlers.                                          *)
(***************************************************************************)
Segments == {"kmu", "handwerk", "retail_gastro", "service", "tourism", "startup"}

NoArg == "<none>"        \* the request carries no segment argument

SegmentArgs == Segments \cup {"other", NoArg}

\* faulty variant: the final else runs the last weighting of the chain
ApplySegmentElseLast(seg, merged, hs, publicity) ==
    IF seg = "kmu" THEN <<kmu_weighting(merged, hs, publicity), "kmu_weight">>
    ELSE IF seg = "handwerk" THEN <<handwerk_weighting(merged, hs, publicity), "handwerk_weight">>
    ELSE IF seg = "retail_gastro"
        THEN <<retail_gastro_weighting(merged, hs, publicity), "retail_gastro_weight">>
    ELSE IF seg = "service" THEN <<service_weighting(merged, hs, publicity), "service_weight">>
    ELSE IF seg = "tourism" THEN <<tourism_weighting(merged, hs, publicity), "tourism_weight">>
    ELSE <<startup_weighting(merged, hs, publicity), "startup_weight">>

\* the if / elif chain of get_map: <<table, weight_column>>
ApplySegment(seg, merged, hs, publicity) ==
    IF seg = "kmu" THEN <<kmu_weighting(merged, hs, publicity), "kmu_weight">>
    ELSE IF seg = "handwerk" THEN <<handwerk_weighting(merged, hs, publicity), "handwerk_weight">>
    ELSE IF seg = "retail_gastro"
        THEN <<retail_gastro_weighting(merged, hs, publicity), "retail_gastro_weight">>
    ELSE IF seg = "service" THEN <<service_weighting(merged, hs, publicity), "service_weight">>
    ELSE IF seg = "tourism" THEN <<tourism_weighting(merged, hs, publicity), "tourism_weight">>
    ELSE IF seg = "startup" THEN <<startup_weighting(merged, hs, publicity), "startup_weight">>
    ELSE <<kmu_weighting(merged, hs, publicity), "kmu_weight">>

TopCount == 10           \* .head(10)

\* The order in which a sort leaves rows whose values compare equal.  sort_values
\* is called without kind=, so numpy's default quicksort does the sorting, which
\* does not promise to keep equal values in table order: the outcome is one
\* ranking of the rows, the same for every sort of a request.
TieOrders(n) == {t \in [1..n -> 1..n] : \A a, b \in 1..n : t[a] = t[b] => a = b}

\* row j comes before row i in data.sort_values(column, ascending=False):
\* larger values first, rows that compare equal as the sort leaves them, absent
\* values last in table order
SortsBefore(vals, tie, j, i) ==
    IF IsNaN(vals[j]) THEN IsNaN(vals[i]) /\ j < i
    ELSE IF IsNaN(vals[i]) THEN TRUE
    ELSE RLt(vals[i], vals[j]) \/ (vals[i] = vals[j] /\ tie[j] < tie[i])

sort_values_desc(table, column, tie) ==
    LET vals   == Column(table, column)
        pos(i) == 1 + Cardinality({j \in 1..Len(table) : SortsBefore(vals, tie, j, i)})
    IN  [p \in 1..Len(table) |-> table[CHOOSE i \in 1..Len(table) : pos(i) = p]]

\* data.sort_values(column, ascending=False).head(10), as {name, weight} entries
TopList(table, column, tie) ==
    LET sorted == sort_values_desc(table, column, tie)
    IN  [p \in 1..IntMin(TopCount, Len(sorted)) |->
            [name |-> sorted[p].region_name, weight |-> sorted[p][column]]]

SegmentColumns ==
    <<  <<"KMU", "kmu_weight">>, <<"Handwerk", "handwerk_weight">>,
        <<"Retail & Gastro", "retail_gastro_weight">>, <<"Dienstleistungen", "service_weight">>,
        <<"Tourismus", "tourism_weight">>, <<"Startups", "startup_weight">>  >>

\* the six weightings of get_statistics, one after another on the same table
AllWeightings(merged, hs, publicity) ==
    startup_weighting(
      tourism_weighting(
        service_weighting(
          retail_gastro_weighting(
            handwerk_weighting(
              kmu_weighting(merged, hs, publicity),
              hs, publicity),
            hs, publicity),
          hs, publicity),
        hs, publicity),
      hs, publicity)

\* the k-th weighting of get_statistics
WeightingAt(k, table, hs, publicity) ==
    CASE k = 1 -> kmu_weighting(table, hs, publicity)
      [] k = 2 -> handwerk_weighting(table, hs, publicity)
      [] k = 3 -> retail_gastro_weighting(table, hs, publicity)
      [] k = 4 -> service_weighting(table, hs, publicity)
      [] k = 5 -> tourism_weighting(table, hs, publicity)
      [] k = 6 -> startup_weighting(table, hs, publicity)

\* the table of get_statistics after its first k weightings
RECURSIVE AfterWeightings(_, _, _, _)
AfterWeightings(k, merged, hs, publicity) ==
    IF k = 0 THEN merged
    ELSE WeightingAt(k, AfterWeightings(k - 1, merged, hs, publicity), hs, publicity)

\* One request per behaviour: a request reloads every input and leaves nothing
\* behind for the next one, so a second request starts from the same state.
Ready == pc = "loaded"

PublicityTables == {<<>>, <<0>>}

\* GET /get_map?segment=arg
GetMap(arg) ==
    /\ Ready
    /\ \E publicity \in PublicityTables :
       \E seg \in {IF arg = NoArg THEN "kmu" ELSE arg} :
       \E merged \in {merge_datasets(municipalities, income_data, merge_raises)} :
         IF DistanceRaises(hotspots, merged)
         THEN \* the weighting raises, the request ends with the error
              /\ segment' = seg
              /\ pc' = "error"
              /\ UNCHANGED <<data, weight_column>>
         ELSE \E res \in {ApplySegment(seg, merged, hotspots, publicity)} :
                /\ segment' = seg
                /\ data' = res[1]
                /\ weight_column' = res[2]
                /\ pc' = "map"
    /\ UNCHANGED <<scoreInputs, top_municipalities, bellVars, fuzzyVars>>

\* GET /api/statistics
GetStatistics ==
    /\ Ready
    /\ \E publicity \in PublicityTables :
       \E merged \in {merge_datasets(municipalities, income_data, merge_raises)} :
         IF DistanceRaises(hotspots, merged)
         THEN \* kmu_weighting raises, the request ends with the error
              /\ pc' = "error"
              /\ UNCHANGED <<data, top_municipalities>>
         ELSE \E scored \in {AllWeightings(merged, hotspots, publicity)} :
              IF \E i \in 1..Len(scored) : "region_name" \notin DOMAIN scored[i]
              THEN \* row['region_name'] on the table of the except branch: KeyError
                   /\ data' = scored
                   /\ pc' = "error"
                   /\ UNCHANGED top_municipalities
              ELSE
              \E tie \in TieOrders(Len(scored)) :
                /\ data' = scored
                /\ top_municipalities' =
                     [k \in 1..Len(SegmentColumns) |->
                         [segment |-> SegmentColumns[k][1],
                          top |-> TopList(scored, SegmentColumns[k][2], tie)]]
                /\ pc' = "stats"
    /\ UNCHANGED <<scoreInputs, segment, weight_column, bellVars, fuzzyVars>>

NextScore ==
    \/ \E arg \in SegmentArgs : GetMap(arg)
    \/ GetStatistics

NoFuzzy ==
    /\ income_csv = <<>>
    /\ similarity = <<>>
    /\ income_df = <<>>
    /\ failed = FALSE

NoBell ==
    /\ bell_in = NaN
    /\ bell_out = <<>>

NoResult ==
    /\ segment = NoArg
    /\ data = <<>>
    /\ weight_column = ""
    /\ top_municipalities = <<>>

\* the tables of load_municipality_data and load_income_data: n municipalities with
\* ids 1..n, and one income record per municipality, in the same order
WellFormedTables(n, geo, inc) ==
    /\ municipalities = [i \in 1..n |-> [id |-> i, name |-> RegionName(i), geometry |-> geo[i]]]
    /\ income_data = [i \in 1..n |-> [region_id |-> i, region_name |-> RegionName(i),
                                       income_per_taxpayer |-> inc[i]]]

(***************************************************************************)
(* SpecScore: scoring requests; incomes and geometries vary (a geometry    *)
(* may be missing), the hotspot table is empty or holds the one point 0    *)
(* (so that a region's hotspot weight is 1, 1/2 or 0 with its geometry).   *)
(***************************************************************************)
ScoreHotspots == {<<>>, <<0>>}

InitScore ==
    /\ pc = "loaded"
    /\ \E n \in 1..MaxRegions : \E geo \in [1..n -> Coords \cup {NoGeometry}] :
       \E inc \in [1..n -> Incomes] :
         WellFormedTables(n, geo, inc)
    /\ hotspots \in ScoreHotspots
    /\ merge_raises \in BOOLEAN
    /\ NoResult /\ NoBell /\ NoFuzzy

SpecScore == InitScore /\ [][NextScore]_vars

(***************************************************************************)
(* SpecProx: the same requests; geometries and the hotspot table vary      *)
(* (up to MaxPoints points), the incomes are 0, 1, 2, ... down the table.  *)
(***************************************************************************)
InitProx ==
    /\ pc = "loaded"
    /\ \E n \in 1..MaxRegions : \E geo \in [1..n -> Coords] :
         WellFormedTables(n, geo, [i \in 1..n |-> Num(i - 1)])
    /\ hotspots \in SortedSeqs(Coords, MaxPoints)
    /\ merge_raises \in BOOLEAN
    /\ NoResult /\ NoBell /\ NoFuzzy

SpecProx == InitProx /\ [][NextScore]_vars

(***************************************************************************)
(* SpecExample: the scoring requests on a table of the two municipalities  *)
(* Zug and Zürich, whose income records carry the names 'Zug' and          *)
(* 'Zuerich' and are joined to them by id.                                 *)
(***************************************************************************)
ExampleIncomes == {Num(80000), Num(100000)}

InitExample ==
    /\ pc = "loaded"
    /\ \E geo \in [1..2 -> Coords] : \E inc \in [1..2 -> ExampleIncomes] :
         /\ municipalities = << [id |-> 1, name |-> "Zug", geometry |-> geo[1]],
                                [id |-> 2, name |-> "Zürich", geometry |-> geo[2]] >>
         /\ income_data = << [region_id |-> 1, region_name |-> "Zug", income_per_taxpayer |-> inc[1]],
                             [region_id |-> 2, region_name |-> "Zuerich", income_per_taxpayer |-> inc[2]] >>
    /\ hotspots \in ScoreHotspots
    /\ merge_raises \in BOOLEAN
    /\ NoResult /\ NoBell /\ NoFuzzy

SpecExample == InitExample /\ [][NextScore]_vars

ExampleInput ==
    /\ income_data[1].income_per_taxpayer = Num(100000)
    /\ income_data[2].income_per_taxpayer = Num(80000)
    /\ hotspots = <<>>

BellSegments == {"kmu", "handwerk", "startup"}

\* the target the weighting of seg subtracts from income_normalized
BellTarget(seg) ==
    IF seg = "kmu" THEN Frac(7, 10) ELSE IF seg = "handwerk" THEN Frac(5, 10) ELSE Frac(6, 10)

\* data['income_weight'] of the weighting of seg, for a table whose only
\* income_normalized value is v
IncomeWeightAt(seg, v) ==
    IF seg = "kmu" THEN kmu_income_weight(<<v>>)[1]
    ELSE IF seg = "handwerk" THEN handwerk_income_weight(<<v>>)[1]
    ELSE startup_income_weight(<<v>>)[1]

InitBell ==
    /\ pc = "bell_input"
    /\ segment \in BellSegments
    /\ bell_in \in {Frac(k, BellDen) : k \in 0..BellDen}
    /\ bell_out = <<>>
    /\ municipalities = <<>> /\ income_data = <<>> /\ hotspots = <<>>
    /\ merge_raises = FALSE
    /\ data = <<>> /\ weight_column = "" /\ top_municipalities = <<>>
    /\ NoFuzzy

EvalBell ==
    /\ pc = "bell_input"
    /\ bell_out' = << IncomeWeightAt(segment, RAdd(BellTarget(segment), bell_in)),
                      IncomeWeightAt(segment, RSub(BellTarget(segment), bell_in)) >>
    /\ pc' = "bell"
    /\ UNCHANGED <<scoreInputs, segment, data, weight_column, top_municipalities, bell_in, fuzzyVars>>

NextBell == EvalBell

SpecBell == InitBell /\ [][NextBell]_vars


(***************************************************************************)
(* src/file.py, load_and_merge_income_data.  A CSV cell is a sequence of   *)
(* characters.                                                             *)
(***************************************************************************)
Digits == {"0", "1", "2", "3", "4", "5", "6", "7", "8", "9"}

DigitValue(ch) ==
    CASE ch = "0" -> 0 [] ch = "1" -> 1 [] ch = "2" -> 2 [] ch = "3" -> 3 [] ch = "4" -> 4
      [] ch = "5" -> 5 [] ch = "6" -> 6 [] ch = "7" -> 7 [] ch = "8" -> 8 [] ch = "9" -> 9

\* str.replace(ch, ''): every occurrence
RemoveAll(str, ch) == SelectSeq(str, LAMBDA c : c # ch)

\* str.replace(ch, '', 1): the first occurrence only
RECURSIVE RemoveFirst(_, _)
RemoveFirst(str, ch) ==
    IF str = <<>> THEN <<>>
    ELSE IF Head(str) = ch THEN Tail(str)
    ELSE <<Head(str)>> \o RemoveFirst(Tail(str), ch)

\* str.isnumeric(): not empty, digits only
IsNumeric(str) == str # <<>> /\ \A k \in 1..Len(str) : str[k] \in Digits

RECURSIVE DigitsValue(_)
DigitsValue(str) ==
    IF str = <<>> THEN 0 ELSE 10 * DigitsValue(SubSeq(str, 1, Len(str) - 1)) + DigitValue(str[Len(str)])

RECURSIVE Pow10(_)
Pow10(k) == IF k = 0 THEN 1 ELSE 10 * Pow10(k - 1)

\* float(str) of digits with at most one '.'
ToFloat(str) ==
    LET dots == {k \in 1..Len(str) : str[k] = "."}
    IN  IF dots = {} THEN Num(DigitsValue(str))
        ELSE LET k == CHOOSE x \in dots : TRUE
             IN  Frac(DigitsValue(RemoveFirst(str, ".")), Pow10(Len(str) - k))

\* pandas.read_csv reads a column whose cells all parse as numbers with a numeric
\* dtype, and any other column as strings
ParsesAsNumber(str) ==
    LET unsigned == IF str # <<>> /\ Head(str) = "-" THEN Tail(str) ELSE str
    IN  IsNumeric(RemoveFirst(unsigned, "."))

HasNumericDtype(cells) ==
    /\ cells # <<>>
    /\ \A k \in 1..Len(cells) : ParsesAsNumber(cells[k])

\* lines 24-30: clean, filter, convert
CleanIncome(str) == RemoveAll(RemoveAll(str, "\""), ",")

KeepsRow(cleaned) == IsNumeric(RemoveFirst(cleaned, "."))

\* lines 33-38
NormalizeIncome(df) ==
    LET vals       == Column(df, "income")
        income_min == SeriesMin(vals)
        income_max == SeriesMax(vals)
    IN  [i \in 1..Len(df) |->
            IF income_max # income_min
            THEN RDiv(RSub(vals[i], income_min), RSub(income_max, income_min))
            ELSE Num(0)]

NoMatch == "<none>"      \* process.extractOne returned None

\* faulty variant: the last of the best scoring choices
extractOneLast(query, choices, sim) ==
    IF choices = <<>> THEN <<NoMatch, 0>>
    ELSE LET best == CHOOSE k \in 1..Len(choices) :
                        /\ \A j \in 1..Len(choices) : sim[<<query, choices[j]>>] <= sim[<<query, choices[k]>>]
                        /\ \A j \in (k + 1)..Len(choices) : sim[<<query, choices[j]>>] < sim[<<query, choices[k]>>]
         IN  <<choices[best], sim[<<query, choices[best]>>]>>

\* process.extractOne(query, choices): <<choice, score>> of the best scoring choice,
\* the first of them in list order when several score the same (max() keeps the
\* first maximum; score_cutoff is left at 0); None for an empty list
extractOne(query, choices, sim) ==
    IF choices = <<>> THEN <<NoMatch, 0>>
    ELSE LET best == CHOOSE k \in 1..Len(choices) :
                        /\ \A j \in 1..Len(choices) : sim[<<query, choices[j]>>] <= sim[<<query, choices[k]>>]
                        /\ \A j \in 1..(k - 1) : sim[<<query, choices[j]>>] < sim[<<query, choices[k]>>]
         IN  <<choices[best], sim[<<query, choices[best]>>]>>

\* municipalities.merge(income_df[[...]], left_on='Gemeindename', right_on='matched_name', how='left')
LeftJoinByName(m, df) ==
    LET hits == SelectSeq(df, LAMBDA r : r.matched_name = m.Gemeindename)
    IN  IF hits = <<>>
        THEN << [Gemeindename |-> m.Gemeindename, matched_name |-> NoName,
                 income |-> NaN, income_normalized |-> NaN] >>
        ELSE [k \in 1..Len(hits) |->
                [Gemeindename |-> m.Gemeindename, matched_name |-> hits[k].matched_name,
                 income |-> hits[k].income, income_normalized |-> hits[k].income_normalized]]

\* [raised |-> an exception reached the except branch, df |-> income_df, merged |-> the result]
load_and_merge_income_data(munis, csv, sim) ==
    LET cleaned  == [k \in 1..Len(csv) |->
                        [id |-> csv[k].id, municipality_name |-> csv[k].municipality_name,
                         income |-> CleanIncome(csv[k].income)]]
        kept     == SelectSeq(cleaned, LAMBDA r : KeepsRow(r.income))
        floats   == [k \in 1..Len(kept) |->
                        [id |-> kept[k].id, municipality_name |-> kept[k].municipality_name,
                         income |-> ToFloat(kept[k].income)]]
        normed   == SetColumn(floats, "income_normalized", NormalizeIncome(floats))
        names    == Column(munis, "Gemeindename")
        matched  == SetColumn(normed, "matched_name",
                        [k \in 1..Len(normed) |-> extractOne(normed[k].municipality_name, names, sim)[1]])
    IN  IF HasNumericDtype(Column(csv, "income"))
        THEN \* .str on a numeric column: AttributeError
             [raised |-> TRUE, df |-> <<>>, merged |-> munis]
        ELSE IF kept # <<>> /\ names = <<>>
        THEN \* extractOne(...)[0] on None: TypeError
             [raised |-> TRUE, df |-> normed, merged |-> munis]
        ELSE [raised |-> FALSE, df |-> matched,
              merged |-> Flatten([i \in 1..Len(munis) |-> LeftJoinByName(munis[i], matched)])]

\* create_heatmap's call, line 121
LoadAndMerge ==
    /\ pc = "csv"
    /\ \E res \in {load_and_merge_income_data(municipalities, income_csv, similarity)} :
         /\ failed' = res.raised
         /\ income_df' = res.df
         /\ data' = res.merged
    /\ pc' = "merged"
    /\ UNCHANGED <<scoreInputs, segment, weight_column, top_municipalities, bellVars,
                   income_csv, similarity>>

(***************************************************************************)
(* SpecFuzzy: one call of load_and_merge_income_data.  The similarity      *)
(* score of a name pair is fixed by the library; here it is any function   *)
(* that scores equal names 100.                                            *)
(***************************************************************************)
CanonicalNames == {"Zug", "Chur"}

RawNames == {"Zug", "Zuoz"}

ScoreLevels == {60, 90}

IncomeCells == { <<"5">>, <<"7">>, <<"1", ",", "2">>, <<"X">> }

SourceIds == {1, 2}

\* every list of distinct canonical names
NameLists ==
    {s \in UNION {[1..k -> CanonicalNames] : k \in 0..Cardinality(CanonicalNames)} :
        \A i \in DOMAIN s, j \in DOMAIN s : i # j => s[i] # s[j]}

Similarities ==
    {f \in [RawNames \X CanonicalNames -> ScoreLevels \cup {100}] :
        \A q \in RawNames, c \in CanonicalNames : (f[<<q, c>>] = 100) <=> (q = c)}

InitFuzzy ==
    /\ pc = "csv"
    /\ \E names \in NameLists :
         municipalities = [i \in DOMAIN names |-> [Gemeindename |-> names[i]]]
    /\ income_csv \in UNION {[1..k -> [id : SourceIds, municipality_name : RawNames,
                                        income : IncomeCells]] : k \in 0..MaxRecords}
    /\ similarity \in Similarities
    /\ income_df = <<>>
    /\ failed = FALSE
    /\ income_data = <<>> /\ hotspots = <<>>
    /\ merge_raises = FALSE
    /\ NoResult /\ NoBell

NextFuzzy == LoadAndMerge

SpecFuzzy == InitFuzzy /\ [][NextFuzzy]_vars


(***************************************************************************)
(* Properties of load_and_merge_income_data (SpecFuzzy).                   *)
(***************************************************************************)
Merged == pc = "merged" /\ ~failed

\* the best similarity score of a raw name over the canonical names of the table
BestScore(raw_name) ==
    LET scores == {similarity[<<raw_name, municipalities[k].Gemeindename>>] : k \in DOMAIN municipalities}
    IN  CHOOSE x \in scores : \A y \in scores : y <= x

\* C1: with the threshold of 80, an income record whose best similarity score is
\* below 80 gets matched_name = none and is joined to no region, and a
\* matched_name is a region name only when its score is at least 80.
ThresholdEnforced ==
    (Merged /\ municipalities # <<>>) =>
        \A k \in DOMAIN income_df :
            /\ BestScore(income_df[k].municipality_name) < 80 =>
                 /\ income_df[k].matched_name = NoMatch
                 /\ \A i \in DOMAIN data : data[i].matched_name # income_df[k].matched_name
            /\ income_df[k].matched_name # NoMatch =>
                 BestScore(income_df[k].municipality_name) >= 80

\* C2: the merged output has exactly one row per region, in region order, whether
\* the region matched zero, one or several income records.
MergeKeepsEveryRegionOnce ==
    pc = "merged" =>
        /\ Len(data) = Len(municipalities)
        /\ \A i \in DOMAIN data : data[i].Gemeindename = municipalities[i].Gemeindename

\* the income value of CSV row k, when the row survives the numeric filter
CsvIncome(k) == ToFloat(CleanIncome(income_csv[k].income))

CsvKept(k) == KeepsRow(CleanIncome(income_csv[k].income))

\* C3: of two income records with the same raw name and different source ids only
\* the one with the greater id is retained: the income of the other one (when no
\* further record carries the same value) appears in no row of the merged output.
LastWriteWins ==
    Merged =>
        \A a \in DOMAIN income_csv, b \in DOMAIN income_csv :
            ( /\ income_csv[a].municipality_name = income_csv[b].municipality_name
              /\ income_csv[a].id < income_csv[b].id
              /\ CsvKept(a) /\ CsvKept(b)
              /\ \A c \in DOMAIN income_csv : (c # a /\ CsvKept(c)) => CsvIncome(c) # CsvIncome(a) )
            => \A i \in DOMAIN data : data[i].income # CsvIncome(a)

(***************************************************************************)
(* Further properties of load_and_merge_income_data (SpecFuzzy).           *)
(***************************************************************************)
\* the income cell of CSV row k does not parse as a number once quotes and
\* thousands separators are removed
CsvUnparseable(k) == ~ParsesAsNumber(CleanIncome(income_csv[k].income))

\* C13: a record whose income value does not parse as a number after cleaning is
\* kept, with its id and name, and only its income becomes absent; no error is
\* raised for it.
UnparseableIncomeOnlyNullsField ==
    Merged =>
        \A k \in DOMAIN income_csv :
            CsvUnparseable(k) =>
                \E r \in DOMAIN income_df :
                    /\ income_df[r].id = income_csv[k].id
                    /\ income_df[r].municipality_name = income_csv[k].municipality_name
                    /\ IsNaN(income_df[r].income)

\* the canonical names in table order, and the first of them with the best score
CandidateNames == Column(municipalities, "Gemeindename")

FirstBest(raw_name) ==
    LET first == CHOOSE p \in DOMAIN CandidateNames :
                    /\ similarity[<<raw_name, CandidateNames[p]>>] = BestScore(raw_name)
                    /\ \A j \in 1..(p - 1) :
                          similarity[<<raw_name, CandidateNames[j]>>] # BestScore(raw_name)
    IN  CandidateNames[first]

EmptyCandidateListIsNoMatch ==
    (pc = "merged" /\ ~HasNumericDtype(Column(income_csv, "income"))) =>
        /\ ~failed
        /\ \A k \in DOMAIN income_csv :
              CsvKept(k) =>
                  \E r \in DOMAIN income_df :
                      /\ income_df[r].id = income_csv[k].id
                      /\ income_df[r].municipality_name = income_csv[k].municipality_name
                      /\ \/ income_df[r].matched_name = NoMatch
                         \/ \E p \in DOMAIN CandidateNames :
                               income_df[r].matched_name = CandidateNames[p]

Scored == pc \in {"map", "stats"}

AllWeightColumns == {SegmentColumns[k][2] : k \in 1..Len(SegmentColumns)}

\* the segment weight columns the request has written
WrittenWeightColumns ==
    IF pc = "map" THEN {weight_column} ELSE IF pc = "stats" THEN AllWeightColumns ELSE {}

\* the column in which a weighting keeps its hotspot proximity weight
ProximityColumn(c) ==
    CASE c = "kmu_weight" -> "hotspot_weight"
      [] c = "handwerk_weight" -> "residential_weight"
      [] c = "retail_gastro_weight" -> "hotspot_weight"
      [] c = "service_weight" -> "business_weight"
      [] c = "tourism_weight" -> "tourist_weight"
      [] c = "startup_weight" -> "innovation_weight"

IncomePresent(i) == ~IsNaN(data[i].income_per_taxpayer)

PresentRows == {i \in DOMAIN data : IncomePresent(i)}

IsMinIncome(i) == \A j \in PresentRows : RLe(data[i].income_per_taxpayer, data[j].income_per_taxpayer)

IsMaxIncome(i) == \A j \in PresentRows : RLe(data[j].income_per_taxpayer, data[i].income_per_taxpayer)

\* all present incomes are equal (also when only one is present)
DegenerateRange ==
    \A i \in PresentRows, j \in PresentRows : data[i].income_per_taxpayer = data[j].income_per_taxpayer

\* C4: a region without income still gets a defined score from every weighting:
\* the income term is left out and the remaining term, the hotspot proximity,
\* carries the whole weight.
AbsentIncomeStillScored ==
    Scored =>
        \A i \in DOMAIN data, c \in WrittenWeightColumns :
            ~IncomePresent(i) =>
                /\ ~IsNaN(data[i][c])
                /\ data[i][c] = data[i][ProximityColumn(c)]

\* C5: when the largest and the smallest present income are equal, every present
\* income normalizes to 0.
DegenerateRangeNormalizesToZero ==
    (Scored /\ DegenerateRange) =>
        \A i \in PresentRows : data[i].income_normalized = Num(0)

\* C6: with at least one present income, every present income normalizes into
\* [0, 1], the smallest to 0 and (unless all are equal) the largest to 1, and an
\* absent income stays absent.
NormalizedIntoUnitRange ==
    (Scored /\ PresentRows # {}) =>
        \A i \in DOMAIN data :
            LET v == data[i].income_normalized
            IN  IF IncomePresent(i)
                THEN /\ ~IsNaN(v)
                     /\ RLe(Num(0), v) /\ RLe(v, Num(1))
                     /\ IsMinIncome(i) => v = Num(0)
                     /\ (IsMaxIncome(i) /\ ~DegenerateRange) => v = Num(1)
                ELSE IsNaN(v)

\* the distance from row i's geometry to the nearest hotspot
NearestHotspot(i) ==
    LET ds == {Abs(data[i].geometry - hotspots[k]) : k \in DOMAIN hotspots}
    IN  CHOOSE d \in ds : \A e \in ds : d <= e

\* C7: with a non-empty hotspot table the proximity weight of every region is
\* 1 - min(d, max_distance) / max_distance for the distance d to the nearest
\* hotspot: 1 at distance 0, 0 from max_distance on, within [0, 1], and never
\* larger for a region that is farther away.
ProximityWeightFormula ==
    (Scored /\ hotspots # <<>>) =>
        \A i \in DOMAIN data, c \in WrittenWeightColumns :
            LET w == data[i][ProximityColumn(c)]
                d == NearestHotspot(i)
            IN  /\ ~IsNaN(w)
                /\ w.n * MaxDistance = w.d * (MaxDistance - (IF d < MaxDistance THEN d ELSE MaxDistance))
                /\ d = 0 => w = Num(1)
                /\ d >= MaxDistance => w = Num(0)
                /\ RLe(Num(0), w) /\ RLe(w, Num(1))
                /\ \A j \in DOMAIN data :
                     NearestHotspot(i) <= NearestHotspot(j) => RLe(data[j][ProximityColumn(c)], w)

ProximityWeightWitness ==
    /\ pc = "map"
    /\ Len(hotspots) = 2 /\ hotspots[1] # hotspots[2]
    /\ \E i \in DOMAIN data, j \in DOMAIN data :
         /\ 0 < NearestHotspot(i) /\ NearestHotspot(i) < MaxDistance
         /\ data[i][ProximityColumn(weight_column)] = Half
         /\ Abs(data[j].geometry - hotspots[1]) > MaxDistance
         /\ NearestHotspot(j) = 0
         /\ data[j][ProximityColumn(weight_column)] = Num(1)

\* C8: with an empty hotspot table the request completes and the proximity
\* weights are 0, one per region and in region order.
EmptyPointSetGivesZero ==
    (Scored /\ hotspots = <<>>) =>
        /\ Len(data) = Len(municipalities)
        /\ \A i \in DOMAIN data, c \in WrittenWeightColumns :
             /\ data[i].id = municipalities[i].id
             /\ data[i][ProximityColumn(c)] = Num(0)

EmptyPointSetWitness ==
    /\ pc = "stats"
    /\ hotspots = <<>>
    /\ Len(data) >= 2
    /\ \A i \in DOMAIN data : data[i].tourist_weight = Num(0)

\* the formulas of the segment table
Bell(n, t) == RClip(RSub(Num(1), RMul(Num(2), RAbs(RSub(n, t)))), Num(0), Num(1))

Mix(a, x, b, y) == RAdd(RMul(Frac(a, 10), x), RMul(Frac(b, 10), y))

TableFormula(c, n, h) ==
    CASE c = "kmu_weight" -> Mix(5, Bell(n, Frac(7, 10)), 5, h)
      [] c = "handwerk_weight" -> Mix(6, Bell(n, Frac(5, 10)), 4, h)
      [] c = "retail_gastro_weight" -> Mix(7, h, 3, n)
      [] c = "service_weight" -> Mix(6, n, 4, h)
      [] c = "tourism_weight" -> Mix(8, h, 2, n)
      [] c = "startup_weight" -> Mix(5, h, 5, Bell(n, Frac(6, 10)))

\* h, from the hotspot table alone
HotspotProximity(i) ==
    IF hotspots = <<>> THEN Num(0)
    ELSE LET d == NearestHotspot(i)
         IN  IF d >= MaxDistance THEN Num(0) ELSE Frac(MaxDistance - d, MaxDistance)

\* C10: for every region with an income each segment weight is its table formula
\* of the normalized income n and the hotspot proximity weight h, whatever the
\* publicity table of the request holds.
SegmentWeightsFollowTable ==
    Scored =>
        \A i \in DOMAIN data, c \in WrittenWeightColumns :
            IncomePresent(i) =>
                data[i][c] = TableFormula(c, data[i].income_normalized, HotspotProximity(i))

SegmentWeightsWitness ==
    /\ pc = "stats"
    /\ \E i \in DOMAIN data :
         /\ IncomePresent(i)
         /\ data[i].income_normalized = Num(1)
         /\ HotspotProximity(i) = Half
         /\ data[i].kmu_weight = Frac(9, 20)
         /\ data[i].tourism_weight = Frac(3, 5)

(***************************************************************************)
(* Properties of the bell curve (SpecBell).                                *)
(***************************************************************************)
\* C9: the income preference is clip(1 - 2 * |v - t|, 0, 1): the same at t + d
\* and t - d, equal to 1 exactly at v = t, and 0 whenever |v - t| >= 1/2.
BellCurveShape ==
    pc = "bell" =>
        LET d == bell_in
            expected == IF 2 * d.n >= d.d THEN Num(0) ELSE Frac(d.d - 2 * d.n, d.d)
        IN  /\ bell_out[1] = bell_out[2]
            /\ bell_out[1] = expected
            /\ (bell_out[1] = Num(1)) <=> (d = Num(0))
            /\ RLe(Half, d) => bell_out[1] = Num(0)

BellCurveWitness ==
    /\ pc = "bell"
    /\ segment = "kmu"
    /\ bell_in = Frac(1, 4)
    /\ bell_out = <<Half, Half>>

(***************************************************************************)
(* Properties of the top lists of /api/statistics (SpecScore).             *)
(***************************************************************************)
TopLists == DOMAIN top_municipalities

\* the rows of the scored table that hold a weight in the column of list k
WeightedRows(k) ==
    {i \in DOMAIN data : ~IsNaN(data[i][SegmentColumns[k][2]])}

\* C11: each top list has min(10, number of regions with a weight) entries, and no
\* entry of it is a region without a weight.
TopListHoldsOnlyWeightedRegions ==
    pc = "stats" =>
        \A k \in TopLists :
            LET top == top_municipalities[k].top
            IN  /\ Len(top) = IntMin(TopCount, Cardinality(WeightedRows(k)))
                /\ \A p \in DOMAIN top : ~IsNaN(top[p].weight)

\* the row of the scored table an entry of a top list was made from
RowOf(name) == CHOOSE i \in DOMAIN data : data[i].region_name = name

\* C12: each top list is in non-increasing order of weight, and entries of equal
\* weight stand in the order of their rows in the table.
TopListStableDescending ==
    pc = "stats" =>
        \A k \in TopLists :
            LET top == top_municipalities[k].top
            IN  \A p, q \in DOMAIN top :
                    (p < q /\ ~IsNaN(top[p].weight) /\ ~IsNaN(top[q].weight)) =>
                        /\ RLe(top[q].weight, top[p].weight)
                        /\ top[p].weight = top[q].weight =>
                               RowOf(top[p].name) < RowOf(top[q].name)

\* the part of C12 that the sort does give: non-increasing weights, regions
\* without a weight after all the others
TopListDescending ==
    pc = "stats" =>
        \A k \in TopLists :
            LET top == top_municipalities[k].top
            IN  \A p, q \in DOMAIN top :
                    p < q =>
                        \/ IsNaN(top[q].weight)
                        \/ /\ ~IsNaN(top[p].weight)
                           /\ RLe(top[q].weight, top[p].weight)

\* the request has ended, with a result or with an error
Answered == pc \in {"map", "stats", "error"}

NullGeometryRows == {i \in DOMAIN municipalities : municipalities[i].geometry = NoGeometry}

\* C17: a region without geometry is left out of the scoring (it gets no
\* proximity weight and no segment weight), and the regions with a geometry are
\* scored all the same.
NullGeometryExcludedFromScoring ==
    (Answered /\ NullGeometryRows # {}) =>
        /\ Scored
        /\ \A i \in DOMAIN data, c \in WrittenWeightColumns :
              IF data[i].geometry = NoGeometry
              THEN IsNaN(data[i][c]) /\ IsNaN(data[i][ProximityColumn(c)])
              ELSE IncomePresent(i) => ~IsNaN(data[i][c])

(***************************************************************************)
(* Properties of the sequence of weightings (SpecScore).                   *)
(***************************************************************************)
\* the columns the weightings share: each of them writes some of these
Intermediates ==
    {"income_normalized", "income_weight", "hotspot_weight", "residential_weight",
     "business_weight", "tourist_weight", "innovation_weight"}

\* C19: in a statistics request each of the six weightings writes its own segment
\* weight column and shared intermediate columns only, so it changes no segment
\* weight column written before it, and in the end each segment weight column
\* holds what its weighting yields when it runs alone on the merged table.
WeightingsDoNotInterfere ==
    pc = "stats" =>
        \A publicity \in PublicityTables :
            LET merged == merge_datasets(municipalities, income_data, merge_raises)
            IN  /\ data = AfterWeightings(Len(SegmentColumns), merged, hotspots, publicity)
                /\ \A k \in 1..Len(SegmentColumns) :
                      LET own    == SegmentColumns[k][2]
                          before == AfterWeightings(k - 1, merged, hotspots, publicity)
                          after  == WeightingAt(k, before, hotspots, publicity)
                          alone  == WeightingAt(k, merged, hotspots, publicity)
                      IN  /\ Column(data, own) = Column(alone, own)
                          /\ Len(after) = Len(before)
                          /\ \A i \in DOMAIN before :
                                \A c \in (DOMAIN before[i]) \ (Intermediates \cup {own}) :
                                    after[i][c] = before[i][c]

WeightingsWitness ==
    /\ pc = "stats"
    /\ hotspots # <<>>
    /\ Len(data) = 2
    /\ \A i \in DOMAIN data : IncomePresent(i)
    /\ data[1].income_per_taxpayer # data[2].income_per_taxpayer
    /\ \E i \in DOMAIN data :
          /\ data[i].kmu_weight # data[i].service_weight
          /\ data[i].income_weight # data[i].kmu_weight

InUnitRange(x) == ~IsNaN(x) /\ RLe(Num(0), x) /\ RLe(x, Num(1))

\* C20: for every region whose normalized income is present and in [0, 1], each
\* segment weight the request has written lies in [0, 1].
SegmentWeightsInUnitRange ==
    Scored =>
        \A i \in DOMAIN data, c \in WrittenWeightColumns :
            InUnitRange(data[i].income_normalized) => InUnitRange(data[i][c])

SegmentWeightsRangeWitness ==
    /\ pc = "stats"
    /\ \E i \in DOMAIN data :
          /\ data[i].income_normalized = Num(1)
          /\ data[i].service_weight = Num(1)
          /\ data[i].kmu_weight = Frac(7, 10)
    /\ \E j \in DOMAIN data :
          /\ data[j].income_normalized = Num(0)
          /\ data[j].tourism_weight = Num(0)
          /\ data[j].income_weight = Num(0)

(***************************************************************************)
(* Properties of the map request (SpecScore).                              *)
(***************************************************************************)
\* the place in the list of weightings that belongs to a segment argument; the
\* KMU weighting for every other value
SegmentIndex(seg) ==
    CASE seg = "kmu" -> 1
      [] seg = "handwerk" -> 2
      [] seg = "retail_gastro" -> 3
      [] seg = "service" -> 4
      [] seg = "tourism" -> 5
      [] seg = "startup" -> 6
      [] OTHER -> 1

\* C21: a map request runs the weighting of its segment argument and no other,
\* and hands that weighting's column to the map; without the argument, or with
\* any other value, it runs the KMU weighting and hands over kmu_weight.
MapRunsOwnWeighting ==
    pc = "map" =>
        LET k == SegmentIndex(segment)
        IN  /\ weight_column = SegmentColumns[k][2]
            /\ \A publicity \in PublicityTables :
                  data = WeightingAt(k, merge_datasets(municipalities, income_data, merge_raises),
                                     hotspots, publicity)
            /\ \A i \in DOMAIN data :
                  (DOMAIN data[i]) \cap AllWeightColumns = {weight_column}

MapFallbackWitness ==
    /\ pc = "map"
    /\ segment = "other"
    /\ weight_column = "kmu_weight"
    /\ \E i \in DOMAIN data : "kmu_weight" \in DOMAIN data[i] /\ data[i].kmu_weight = Frac(7, 10)

(***************************************************************************)
(* Properties of the except branch of merge_datasets (SpecScore).          *)
(***************************************************************************)
\* the request got its table from merge_datasets and worked on it
WorkedOnMerged == Answered /\ data # <<>>

\* C22: when the join raises, merge_datasets still returns: the request works on
\* a table with every municipality exactly once, in table order, each with the
\* income 80000, so all incomes are equal and the normalization range is
\* degenerate.
MergeFailureGivesDefaultIncome ==
    (Answered /\ merge_raises) =>
        /\ ~DistanceRaises(hotspots, municipalities) => WorkedOnMerged
        /\ WorkedOnMerged =>
              /\ Len(data) = Len(municipalities)
              /\ \A i \in DOMAIN data :
                    /\ data[i].id = municipalities[i].id
                    /\ data[i].name = municipalities[i].name
                    /\ data[i].income_per_taxpayer = Num(80000)
              /\ DegenerateRange
              /\ SeriesMin(Column(data, "income_per_taxpayer")) =
                    SeriesMax(Column(data, "income_per_taxpayer"))

MergeFailureWitness ==
    /\ pc = "map"
    /\ merge_raises
    /\ Len(data) = 2
    /\ income_data[1].income_per_taxpayer = Num(0)
    /\ income_data[2].income_per_taxpayer = NaN
    /\ \A i \in DOMAIN data : data[i].income_per_taxpayer = Num(80000)

=============================================================================
